---- MODULE Spec2Model ----
(***************************************************************************)
(* Model of the iseven-api crate: the asynchronous and the blocking client *)
(* (src/src/lib.rs), the convenience functions is_even and is_odd, and the *)
(* command line program (src/src/main.rs).                                 *)
(*                                                                         *)
(* The HTTP server and the transport are the environment: every request    *)
(* that is sent is answered by a nondeterministically chosen behaviour     *)
(* (a transport failure, or a status code with a body).                    *)
(***************************************************************************)
EXTENDS Integers, Sequences, FiniteSets, TLC

VARIABLES pc, number, url, sent, resp, result, conv, cli

vars == <<pc, number, url, sent, resp, result, conv, cli>>
clientVars == <<pc, number, url, sent, resp, result>>

---------------------------------------------------------------------------
(* Bounds of the model. *)

\* Longest argument list given to the command line program.
MaxArgs == 3

---------------------------------------------------------------------------
(* Subjects and the request URL. *)

API_URL == "https://api.isevenapi.xyz/api/iseven/"

IntSubject(n) == [t |-> "int", n |-> n, s |-> ""]
StrSubject(s) == [t |-> "str", n |-> 0, s |-> s]
NoSubject == StrSubject("")

\* Values a caller passes as `number: T` with T: Display.
Subjects == {IntSubject(42), IntSubject(-1), StrSubject("abc")}

Digits == "0123456789"

RECURSIVE Decimal(_)
Decimal(n) ==
    IF n < 10
    THEN SubSeq(Digits, n + 1, n + 1)
    ELSE Decimal(n \div 10) \o SubSeq(Digits, (n % 10) + 1, (n % 10) + 1)

\* <T as Display>::fmt for the integer and the string subjects.
Display(subject) ==
    IF subject.t = "int"
    THEN IF subject.n < 0 THEN "-" \o Decimal(0 - subject.n) ELSE Decimal(subject.n)
    ELSE subject.s

\* format!("{api_url}{num}", api_url = API_URL, num = number) of the async client.
AsyncRequestUrl(subject) == API_URL \o Display(subject)

\* Mutant: the blocking client puts a separator of its own before the number.
BlockingRequestUrl_ExtraSlash(subject) == API_URL \o "/" \o Display(subject)

\* format!("{api_url}{num}", api_url = API_URL, num = number) of the blocking client.
BlockingRequestUrl(subject) == API_URL \o Display(subject)

---------------------------------------------------------------------------
(* What the server and the transport can do with one request. *)

Absent == [t |-> "absent", s |-> "", b |-> FALSE]
JString(s) == [t |-> "string", s |-> s, b |-> FALSE]
JBool(b) == [t |-> "bool", s |-> "", b |-> b]
JNumber == [t |-> "number", s |-> "", b |-> FALSE]

AdValues == {Absent, JString("Buy isEvenCoin"), JNumber}
IsEvenValues == {Absent, JBool(TRUE), JBool(FALSE), JString("yes")}
ErrorValues == {Absent, JString("Invalid number."), JNumber}

\* A JSON object with any combination of the three keys the crate reads.
ObjectBodies ==
    { [kind |-> "object", ad |-> a, iseven |-> i, error |-> e] :
        a \in AdValues, i \in IsEvenValues, e \in ErrorValues }

OtherBody(kind) == [kind |-> kind, ad |-> Absent, iseven |-> Absent, error |-> Absent]

\* "scalar": valid JSON that is no object; "nonjson": text that is no JSON;
\* "aborted": the connection fails while the body is read.
Bodies == ObjectBodies \cup {OtherBody("scalar"), OtherBody("nonjson"), OtherBody("aborted")}

StatusCodes == {200, 201, 400, 401, 404, 500}

Is2xx(status) == status >= 200 /\ status <= 299

\* send() fails before any response is received.
TransportFailures == {"connect", "timeout"}

NoBehaviour == [transport |-> "none", status |-> 0, body |-> OtherBody("none")]

ServerBehaviours ==
    { [transport |-> f, status |-> 0, body |-> OtherBody("none")] : f \in TransportFailures }
    \cup { [transport |-> "ok", status |-> s, body |-> b] : s \in StatusCodes, b \in Bodies }

---------------------------------------------------------------------------
(* The wire shapes, as the interface describes them. *)

\* {"ad": <string>, "iseven": <bool>}
SuccessShaped(body) ==
    body.kind = "object" /\ body.ad.t = "string" /\ body.iseven.t = "bool"

\* {"error": <string>}
ErrorShaped(body) == body.kind = "object" /\ body.error.t = "string"

---------------------------------------------------------------------------
(* Results of a call. *)

NoResult ==
    [tag |-> "None", ad |-> "", iseven |-> FALSE, error |-> "", status |-> 0, cause |-> ""]

\* Ok(IsEvenApiResponse { ad, iseven })
OkResponse(r) == [NoResult EXCEPT !.tag = "Ok", !.ad = r.ad, !.iseven = r.iseven]

\* The variants of IsEvenApiError.
NumberOutOfRange(e) == [NoResult EXCEPT !.tag = "NumberOutOfRange", !.error = e.error]
InvalidNumber(e) == [NoResult EXCEPT !.tag = "InvalidNumber", !.error = e.error]
UnknownErrorResponse(e, status) ==
    [NoResult EXCEPT !.tag = "UnknownErrorResponse", !.error = e.error, !.status = status]
NetworkError(cause) == [NoResult EXCEPT !.tag = "NetworkError", !.cause = cause]

\* A panic: the call does not return to its caller.
Panic == [NoResult EXCEPT !.tag = "Panic"]

ErrorTags == {"NumberOutOfRange", "InvalidNumber", "UnknownErrorResponse", "NetworkError"}
ServerErrorTags == {"NumberOutOfRange", "InvalidNumber", "UnknownErrorResponse"}

---------------------------------------------------------------------------
(* Deserialization and classification. *)

NoMatch == [variant |-> "NoMatch", ad |-> "", iseven |-> FALSE, error |-> ""]

\* #[derive(Deserialize)] struct IsEvenApiResponse { ad: String, iseven: bool }
IsEvenApiResponse(body) ==
    IF body.kind = "object" /\ body.ad.t = "string" /\ body.iseven.t = "bool"
    THEN [NoMatch EXCEPT !.variant = "Ok", !.ad = body.ad.s, !.iseven = body.iseven.b]
    ELSE NoMatch

\* #[derive(Deserialize)] struct IsEvenApiErrorResponse { error: String }
IsEvenApiErrorResponse(body) ==
    IF body.kind = "object" /\ body.error.t = "string"
    THEN [NoMatch EXCEPT !.variant = "Err", !.error = body.error.s]
    ELSE NoMatch

\* Mutant: the variants are declared in the other order, Err(..) first.
IsEvenResponseType_ErrFirst(body) ==
    IF IsEvenApiErrorResponse(body).variant = "Err"
    THEN IsEvenApiErrorResponse(body)
    ELSE IsEvenApiResponse(body)

\* #[serde(untagged)] enum IsEvenResponseType { Ok(..), Err(..) }: the first
\* variant that deserializes, in declaration order.
IsEvenResponseType(body) ==
    IF IsEvenApiResponse(body).variant = "Ok"
    THEN IsEvenApiResponse(body)
    ELSE IsEvenApiErrorResponse(body)

\* response.json::<IsEvenResponseType>(): Ok(value) or Err(reqwest::Error).
ResponseJson(body) ==
    IF body.kind = "aborted"
    THEN [ok |-> FALSE, cause |-> "body", value |-> NoMatch]
    ELSE IF body.kind = "nonjson" \/ IsEvenResponseType(body).variant = "NoMatch"
    THEN [ok |-> FALSE, cause |-> "decode", value |-> NoMatch]
    ELSE [ok |-> TRUE, cause |-> "", value |-> IsEvenResponseType(body)]

\* Mutant: the arms for 400 and 401 are exchanged.
parse_response_Swapped(json, status) ==
    IF json.variant = "Ok"
    THEN OkResponse(json)
    ELSE IF status = 400
    THEN NumberOutOfRange(json)
    ELSE IF status = 401
    THEN InvalidNumber(json)
    ELSE UnknownErrorResponse(json, status)

\* Mutant: the catch-all arm reports a fixed status instead of the observed one.
parse_response_Status500(json, status) ==
    IF json.variant = "Ok"
    THEN OkResponse(json)
    ELSE IF status = 400
    THEN InvalidNumber(json)
    ELSE IF status = 401
    THEN NumberOutOfRange(json)
    ELSE UnknownErrorResponse(json, 500)

\* Mutant: an error body under a 2xx status is taken for a decoding failure.
parse_response_2xxAnomaly(json, status) ==
    IF json.variant = "Ok"
    THEN OkResponse(json)
    ELSE IF Is2xx(status)
    THEN NetworkError("decode")
    ELSE IF status = 400
    THEN InvalidNumber(json)
    ELSE IF status = 401
    THEN NumberOutOfRange(json)
    ELSE UnknownErrorResponse(json, status)

parse_response(json, status) ==
    IF json.variant = "Ok"
    THEN OkResponse(json)
    ELSE IF status = 400
    THEN InvalidNumber(json)
    ELSE IF status = 401
    THEN NumberOutOfRange(json)
    ELSE UnknownErrorResponse(json, status)

---------------------------------------------------------------------------
(* The clients.  "async" is an IsEvenApiClient; the others are             *)
(* IsEvenApiBlockingClients: one used directly, one made by is_even, one   *)
(* made by the command line program.                                       *)

Clients == {"async", "blocking", "conv", "cli"}

\* IsEvenApiClient::get, entry: the request URL is formatted.
AsyncGet_Call(c, subject) ==
    /\ pc[c] = "idle"
    /\ pc' = [pc EXCEPT ![c] = "send"]
    /\ number' = [number EXCEPT ![c] = subject]
    /\ url' = [url EXCEPT ![c] = AsyncRequestUrl(subject)]
    /\ resp' = [resp EXCEPT ![c] = NoBehaviour]
    /\ result' = [result EXCEPT ![c] = NoResult]
    /\ UNCHANGED sent

\* Mutant: a request that fails in the transport is sent again.
AsyncGet_Send_Retry(c) ==
    /\ pc[c] = "send"
    /\ \E beh \in ServerBehaviours :
        /\ sent' = [sent EXCEPT ![c] = Append(@, url[c])]
        /\ resp' = [resp EXCEPT ![c] = beh]
        /\ pc' = [pc EXCEPT ![c] = IF beh.transport # "ok" THEN "send" ELSE "json"]
        /\ UNCHANGED result
    /\ UNCHANGED <<number, url>>

\* self.client.get(request_url).send().await?
AsyncGet_Send(c) ==
    /\ pc[c] = "send"
    /\ \E beh \in ServerBehaviours :
        /\ sent' = [sent EXCEPT ![c] = Append(@, url[c])]
        /\ resp' = [resp EXCEPT ![c] = beh]
        /\ IF beh.transport # "ok"
           THEN /\ result' = [result EXCEPT ![c] = NetworkError(beh.transport)]
                /\ pc' = [pc EXCEPT ![c] = "done"]
           ELSE /\ pc' = [pc EXCEPT ![c] = "json"]
                /\ UNCHANGED result
    /\ UNCHANGED <<number, url>>

\* Mutant: the body is unwrapped instead of propagated with `?`.
AsyncGet_Result_Unwrap(response) ==
    LET status == response.status
        json == ResponseJson(response.body)
    IN  IF json.ok THEN parse_response(json.value, status) ELSE Panic

\* let status = response.status(); parse_response(response.json().await?, status)
AsyncGet_Result(response) ==
    LET status == response.status
        json == ResponseJson(response.body)
    IN  IF json.ok THEN parse_response(json.value, status) ELSE NetworkError(json.cause)

AsyncGet_Json(c) ==
    /\ pc[c] = "json"
    /\ result' = [result EXCEPT ![c] = AsyncGet_Result(resp[c])]
    /\ pc' = [pc EXCEPT ![c] = "done"]
    /\ UNCHANGED <<number, url, sent, resp>>

\* IsEvenApiBlockingClient::get, entry: the request URL is formatted.
BlockingGet_Call(c, subject) ==
    /\ pc[c] = "idle"
    /\ pc' = [pc EXCEPT ![c] = "send"]
    /\ number' = [number EXCEPT ![c] = subject]
    /\ url' = [url EXCEPT ![c] = BlockingRequestUrl(subject)]
    /\ resp' = [resp EXCEPT ![c] = NoBehaviour]
    /\ result' = [result EXCEPT ![c] = NoResult]
    /\ UNCHANGED sent

\* self.client.get(request_url).send()?
BlockingGet_Send(c) ==
    /\ pc[c] = "send"
    /\ \E beh \in ServerBehaviours :
        /\ sent' = [sent EXCEPT ![c] = Append(@, url[c])]
        /\ resp' = [resp EXCEPT ![c] = beh]
        /\ IF beh.transport # "ok"
           THEN /\ result' = [result EXCEPT ![c] = NetworkError(beh.transport)]
                /\ pc' = [pc EXCEPT ![c] = "done"]
           ELSE /\ pc' = [pc EXCEPT ![c] = "json"]
                /\ UNCHANGED result
    /\ UNCHANGED <<number, url>>

\* Mutant: the status is classified before the body is decoded.
BlockingGet_Result_StatusFirst(response) ==
    LET status == response.status
        json == ResponseJson(response.body)
    IN  IF status = 400 /\ ~json.ok THEN InvalidNumber(json.value)
        ELSE IF status = 401 /\ ~json.ok THEN NumberOutOfRange(json.value)
        ELSE IF json.ok THEN parse_response(json.value, status)
        ELSE NetworkError(json.cause)

\* let status = response.status(); parse_response(response.json()?, status)
BlockingGet_Result(response) ==
    LET status == response.status
        json == ResponseJson(response.body)
    IN  IF json.ok THEN parse_response(json.value, status) ELSE NetworkError(json.cause)

BlockingGet_Json(c) ==
    /\ pc[c] = "json"
    /\ result' = [result EXCEPT ![c] = BlockingGet_Result(resp[c])]
    /\ pc' = [pc EXCEPT ![c] = "done"]
    /\ UNCHANGED <<number, url, sent, resp>>

---------------------------------------------------------------------------
(* A program that uses the two clients directly. *)

UserCallsAsync ==
    /\ \E subject \in Subjects : AsyncGet_Call("async", subject)
    /\ UNCHANGED <<conv, cli>>

UserCallsBlocking ==
    /\ \E subject \in Subjects : BlockingGet_Call("blocking", subject)
    /\ UNCHANGED <<conv, cli>>

AsyncSend == AsyncGet_Send("async") /\ UNCHANGED <<conv, cli>>

AsyncJson == AsyncGet_Json("async") /\ UNCHANGED <<conv, cli>>

BlockingSend == BlockingGet_Send("blocking") /\ UNCHANGED <<conv, cli>>

BlockingJson == BlockingGet_Json("blocking") /\ UNCHANGED <<conv, cli>>

---------------------------------------------------------------------------
(* The convenience functions is_even and is_odd. *)

\* Mutant: unwrap_or_default, which turns an error into a default response.
Unwrap_OrDefault(res) == IF res.tag = "Ok" THEN res ELSE [NoResult EXCEPT !.tag = "Ok"]

\* Result::unwrap: the Ok value, or a panic.
Unwrap(res) == IF res.tag = "Ok" THEN res ELSE Panic

\* The user calls is_even(number): IsEvenApiBlockingClient::new().get(number)
UserCallsIsEven ==
    /\ conv.pc = "idle"
    /\ \E subject \in Subjects : BlockingGet_Call("conv", subject)
    /\ conv' = [conv EXCEPT !.fn = "is_even", !.pc = "get"]
    /\ UNCHANGED cli

\* The user calls is_odd(number), which calls is_even(number).
UserCallsIsOdd ==
    /\ conv.pc = "idle"
    /\ \E subject \in Subjects : BlockingGet_Call("conv", subject)
    /\ conv' = [conv EXCEPT !.fn = "is_odd", !.pc = "get"]
    /\ UNCHANGED cli

ConvSend == BlockingGet_Send("conv") /\ UNCHANGED <<conv, cli>>

ConvJson == BlockingGet_Json("conv") /\ UNCHANGED <<conv, cli>>

\* is_even: .unwrap().iseven()
is_even ==
    /\ conv.pc = "get"
    /\ pc["conv"] = "done"
    /\ LET r == Unwrap(result["conv"])
       IN  conv' = IF r.tag = "Panic"
                   THEN [conv EXCEPT !.pc = "panicked"]
                   ELSE [conv EXCEPT !.ret = r.iseven,
                                     !.pc = IF conv.fn = "is_odd" THEN "negate" ELSE "returned"]
    /\ UNCHANGED <<clientVars, cli>>

\* is_odd: !is_even(number)
is_odd ==
    /\ conv.pc = "negate"
    /\ conv' = [conv EXCEPT !.ret = ~conv.ret, !.pc = "returned"]
    /\ UNCHANGED <<clientVars, cli>>

---------------------------------------------------------------------------
(* The command line program. *)

\* argv[0]
AppName == "iseven_api"

\* Strings given as the `numbers` arguments.
CliNumbers == {"42", "abc"}

ArgLists == UNION { [1..n -> CliNumbers] : n \in 0..MaxArgs }

\* Display of http::StatusCode: the code and its canonical reason.
StatusDisplay(status) ==
    Decimal(status) \o " " \o
    (CASE status = 200 -> "OK"
       [] status = 201 -> "Created"
       [] status = 400 -> "Bad Request"
       [] status = 401 -> "Unauthorized"
       [] status = 404 -> "Not Found"
       [] status = 500 -> "Internal Server Error"
       [] OTHER -> "<unknown status code>")

\* Display of IsEvenApiError (the #[error(..)] attributes).
ErrorDisplay(e) ==
    CASE e.tag \in {"NumberOutOfRange", "InvalidNumber"} -> e.error
      [] e.tag = "UnknownErrorResponse" ->
            "Server returned status code " \o StatusDisplay(e.status) \o ": " \o e.error
      [] OTHER -> "network error: " \o e.cause

\* eprintln!("error: {}: {}: {}", app_name, input_value, msg)
ErrorLine(msg, input_value) == "error: " \o AppName \o ": " \o input_value \o ": " \o msg

\* The two lines printed for a successful lookup.
ResultLines(num, response) ==
    << "Advertisement: " \o response.ad,
       num \o " is an " \o (IF response.iseven THEN "even" ELSE "odd") \o " number" >>

\* Mutant: the error is printed and the loop goes on to the next number.
print_error_Continue(msg, input_value) ==
    [cli EXCEPT !.err = Append(@, ErrorLine(msg, input_value)), !.idx = @ + 1, !.pc = "loop"]

\* What print_error does to the program: exit(1).
print_error(msg, input_value) ==
    [cli EXCEPT !.err = Append(@, ErrorLine(msg, input_value)), !.exit = 1, !.pc = "exited"]

\* The text of a response body, as the server sent it.
RawField(name, v) ==
    IF v.t = "absent" THEN <<>>
    ELSE << "\"" \o name \o "\":" \o
            (CASE v.t = "string" -> "\"" \o v.s \o "\""
               [] v.t = "bool" -> (IF v.b THEN "true" ELSE "false")
               [] OTHER -> "7") >>

RECURSIVE Join(_)
Join(parts) ==
    IF parts = <<>> THEN ""
    ELSE IF Len(parts) = 1 THEN parts[1]
    ELSE parts[1] \o "," \o Join(Tail(parts))

RawBody(body) ==
    CASE body.kind = "object" ->
            "{" \o Join(RawField("ad", body.ad) \o RawField("iseven", body.iseven)
                        \o RawField("error", body.error)) \o "}"
      [] body.kind = "scalar" -> "null"
      [] OTHER -> "<html>"

\* The server behaviours drawn for the lookups of --json: the bodies the API
\* documents, and the failures.
JsonModeBehaviours ==
    { beh \in ServerBehaviours :
        \/ beh.transport # "ok"
        \/ beh.body.kind \in {"nonjson", "aborted"}
        \/ /\ SuccessShaped(beh.body) /\ beh.body.error.t = "absent"
        \/ /\ ErrorShaped(beh.body) /\ beh.body.ad.t = "absent"
           /\ beh.body.iseven.t = "absent" }

\* IsEvenApiBlockingClient::get_json, which main calls and lib.rs does not
\* define: one request, answered by beh; it returns the body's text or an error.
get_json(beh) ==
    IF beh.transport # "ok"
    THEN {NetworkError(beh.transport)}
    ELSE IF beh.body.kind = "aborted"
    THEN {NetworkError("body")}
    ELSE LET e == IsEvenApiErrorResponse(beh.body)
         IN  { [NoResult EXCEPT !.tag = "Ok", !.ad = RawBody(beh.body)],
               NetworkError("decode"),
               InvalidNumber(e), NumberOutOfRange(e), UnknownErrorResponse(e, beh.status) }

\* let cli = Cli::parse(); let client = IsEvenApiBlockingClient::new();
Main_Parse ==
    /\ cli.pc = "start"
    /\ \E numbers \in ArgLists, json \in BOOLEAN :
        cli' = [cli EXCEPT !.args = [numbers |-> numbers, json |-> json], !.pc = "loop"]
    /\ UNCHANGED <<clientVars, conv>>

\* for num in cli.numbers { if cli.json { match client.get_json(&num) { .. } } .. }
Main_GetJson ==
    /\ cli.pc = "loop"
    /\ cli.idx <= Len(cli.args.numbers)
    /\ cli.args.json
    /\ LET num == cli.args.numbers[cli.idx]
       IN  \E beh \in JsonModeBehaviours : \E r \in get_json(beh) :
            /\ sent' = [sent EXCEPT !["cli"] = Append(@, BlockingRequestUrl(StrSubject(num)))]
            /\ cli' = IF r.tag = "Ok"
                      THEN [cli EXCEPT !.out = Append(@, r.ad),
                                       !.lookups = Append(@, r.tag),
                                       !.idx = @ + 1]
                      ELSE [print_error(ErrorDisplay(r), num) EXCEPT
                                       !.lookups = Append(@, r.tag)]
    /\ UNCHANGED <<pc, number, url, resp, result, conv>>

\* .. else { match client.get(&num) { .. } }: the call is made.
Main_Get ==
    /\ cli.pc = "loop"
    /\ cli.idx <= Len(cli.args.numbers)
    /\ ~cli.args.json
    /\ BlockingGet_Call("cli", StrSubject(cli.args.numbers[cli.idx]))
    /\ cli' = [cli EXCEPT !.pc = "get"]
    /\ UNCHANGED conv

CliSend == BlockingGet_Send("cli") /\ UNCHANGED <<conv, cli>>

CliJson == BlockingGet_Json("cli") /\ UNCHANGED <<conv, cli>>

\* The arms of match client.get(&num): Ok prints and goes on, Err is print_error.
\* The response and the error are dropped with the arm.
Main_Match ==
    /\ cli.pc = "get"
    /\ pc["cli"] = "done"
    /\ LET num == cli.args.numbers[cli.idx]
           r == result["cli"]
       IN  cli' = IF r.tag = "Ok"
                  THEN [cli EXCEPT !.out = @ \o ResultLines(num, r),
                                   !.lookups = Append(@, r.tag),
                                   !.idx = @ + 1,
                                   !.pc = "loop"]
                  ELSE [print_error(ErrorDisplay(r), num) EXCEPT
                                   !.lookups = Append(@, r.tag)]
    /\ pc' = [pc EXCEPT !["cli"] = "idle"]
    /\ number' = [number EXCEPT !["cli"] = NoSubject]
    /\ url' = [url EXCEPT !["cli"] = ""]
    /\ resp' = [resp EXCEPT !["cli"] = NoBehaviour]
    /\ result' = [result EXCEPT !["cli"] = NoResult]
    /\ UNCHANGED <<sent, conv>>

\* The loop is over and main returns.
Main_Return ==
    /\ cli.pc = "loop"
    /\ cli.idx > Len(cli.args.numbers)
    /\ cli' = [cli EXCEPT !.exit = 0, !.pc = "exited"]
    /\ UNCHANGED <<clientVars, conv>>

---------------------------------------------------------------------------

NoArgs == [numbers |-> <<>>, json |-> FALSE]

Init ==
    /\ pc = [c \in Clients |-> "idle"]
    /\ number = [c \in Clients |-> NoSubject]
    /\ url = [c \in Clients |-> ""]
    /\ sent = [c \in Clients |-> <<>>]
    /\ resp = [c \in Clients |-> NoBehaviour]
    /\ result = [c \in Clients |-> NoResult]
    /\ conv = [fn |-> "", pc |-> "idle", ret |-> FALSE]
    /\ cli = [pc |-> "start", args |-> NoArgs, idx |-> 1, out |-> <<>>, err |-> <<>>,
              lookups |-> <<>>, exit |-> -1]

Next ==
    \/ UserCallsAsync
    \/ AsyncSend
    \/ AsyncJson
    \/ UserCallsBlocking
    \/ BlockingSend
    \/ BlockingJson

Spec == Init /\ [][Next]_vars

\* The convenience functions alone.
NextConv ==
    \/ UserCallsIsEven
    \/ UserCallsIsOdd
    \/ ConvSend
    \/ ConvJson
    \/ is_even
    \/ is_odd

SpecConv == Init /\ [][NextConv]_vars

\* The command line program alone.
NextCli ==
    \/ Main_Parse
    \/ Main_GetJson
    \/ Main_Get
    \/ CliSend
    \/ CliJson
    \/ Main_Match
    \/ Main_Return

SpecCli == Init /\ [][NextCli]_vars

---------------------------------------------------------------------------
(* Reading a returned call against the wire shapes. *)

\* The success shape is tried first.
ParsesAsSuccess(beh) == beh.transport = "ok" /\ SuccessShaped(beh.body)
ParsesAsError(beh) ==
    beh.transport = "ok" /\ ErrorShaped(beh.body) /\ ~SuccessShaped(beh.body)
ParsesAsNeither(beh) ==
    beh.transport = "ok" /\ ~ErrorShaped(beh.body) /\ ~SuccessShaped(beh.body)

\* The reqwest error a failed call stems from.
UnderlyingCause(beh) ==
    IF beh.transport # "ok" THEN beh.transport
    ELSE IF beh.body.kind = "aborted" THEN "body" ELSE "decode"

Returned(c) == pc[c] = "done"

OutcomeTags == {"Ok"} \cup ErrorTags

---------------------------------------------------------------------------
(* Properties. *)

\* C1: a call whose body parses as the error shape returns InvalidNumber on
\* status 400 and NumberOutOfRange on status 401, each with the body's message.
C1_ErrorShape400And401 ==
    \A c \in Clients :
        (Returned(c) /\ ParsesAsError(resp[c]) /\ resp[c].status \in {400, 401}) =>
            /\ result[c].tag =
                 (IF resp[c].status = 400 THEN "InvalidNumber" ELSE "NumberOutOfRange")
            /\ result[c].error = resp[c].body.error.s

C1_Witness ==
    /\ Returned("async") /\ ParsesAsError(resp["async"]) /\ resp["async"].status = 400
    /\ result["async"].tag = "InvalidNumber"
    /\ Returned("blocking") /\ ParsesAsError(resp["blocking"])
    /\ resp["blocking"].status = 401
    /\ result["blocking"].tag = "NumberOutOfRange"

\* C2: a call whose body parses as the error shape, with a status that is not
\* 2xx, 400 or 401, returns UnknownErrorResponse with the body's message and
\* the status of the response.
C2_OtherStatusUnknown ==
    \A c \in Clients :
        (/\ Returned(c) /\ ParsesAsError(resp[c])
         /\ ~Is2xx(resp[c].status) /\ resp[c].status \notin {400, 401}) =>
            /\ result[c].tag = "UnknownErrorResponse"
            /\ result[c].error = resp[c].body.error.s
            /\ result[c].status = resp[c].status

C2_Witness ==
    \E c \in Clients :
        /\ Returned(c) /\ ParsesAsError(resp[c]) /\ resp[c].status = 404
        /\ result[c].tag = "UnknownErrorResponse" /\ result[c].status = 404

\* C3: a body that parses as the success shape is returned as Ok with its ad
\* and iseven, whatever the status code.
C3_SuccessShapeAnyStatus ==
    \A c \in Clients :
        (Returned(c) /\ ParsesAsSuccess(resp[c])) =>
            /\ result[c].tag = "Ok"
            /\ result[c].ad = resp[c].body.ad.s
            /\ result[c].iseven = resp[c].body.iseven.b

C3_Witness ==
    \E c \in Clients :
        /\ Returned(c) /\ ParsesAsSuccess(resp[c]) /\ resp[c].status = 401
        /\ resp[c].body.error.t = "string"
        /\ result[c].tag = "Ok" /\ result[c].iseven

\* C4: every call that returns has exactly one outcome, the success response
\* or one of the four errors, decided by how the body parses; a success holds
\* no error data and an error no success data.
C4_ExactlyOneOutcome ==
    \A c \in Clients :
        Returned(c) =>
            /\ Cardinality({t \in OutcomeTags : result[c].tag = t}) = 1
            /\ ParsesAsSuccess(resp[c]) => result[c].tag = "Ok"
            /\ ParsesAsError(resp[c]) => result[c].tag \in ServerErrorTags
            /\ ParsesAsNeither(resp[c]) => result[c].tag = "NetworkError"
            /\ result[c].tag = "Ok" =>
                   result[c].error = "" /\ result[c].cause = "" /\ result[c].status = 0
            /\ result[c].tag \in ErrorTags => result[c].ad = "" /\ ~result[c].iseven

C4_Witness ==
    /\ Returned("async") /\ resp["async"].status = 500 /\ ParsesAsNeither(resp["async"])
    /\ result["async"].tag = "NetworkError"
    /\ Returned("blocking") /\ resp["blocking"].status = 200
    /\ ParsesAsSuccess(resp["blocking"])
    /\ result["blocking"].tag = "Ok"

\* C5: a call whose request fails in the transport, or whose body parses as
\* neither shape, returns NetworkError with the underlying cause, whatever the
\* status code.
C5_NetworkError ==
    \A c \in Clients :
        (Returned(c) /\ (resp[c].transport # "ok" \/ ParsesAsNeither(resp[c]))) =>
            /\ result[c].tag = "NetworkError"
            /\ result[c].cause = UnderlyingCause(resp[c])

C5_Witness ==
    /\ Returned("blocking") /\ resp["blocking"].status = 400
    /\ resp["blocking"].body.kind = "object" /\ ParsesAsNeither(resp["blocking"])
    /\ result["blocking"].tag = "NetworkError"
    /\ Returned("async") /\ resp["async"].transport = "timeout"
    /\ result["async"].tag = "NetworkError"

\* C6: for the same subject the two clients request the same URL, and for the
\* same server behaviour they return the same result.
C6_BlockingEqualsAsync ==
    /\ (pc["async"] # "idle" /\ pc["blocking"] # "idle"
        /\ number["async"] = number["blocking"]) => url["async"] = url["blocking"]
    /\ (Returned("async") /\ Returned("blocking")
        /\ number["async"] = number["blocking"]
        /\ resp["async"] = resp["blocking"]) =>
            /\ result["async"] = result["blocking"]
            /\ sent["async"] = sent["blocking"]

C6_Witness ==
    /\ Returned("async") /\ Returned("blocking")
    /\ number["async"] = number["blocking"]
    /\ resp["async"] = resp["blocking"]
    /\ result["async"].tag = "UnknownErrorResponse"
    /\ result["blocking"].tag = "UnknownErrorResponse"

\* C7, as claimed: no public operation panics, is_even and is_odd included.
C7_NoOperationPanics ==
    /\ conv.pc # "panicked"
    /\ \A c \in Clients : result[c].tag # "Panic"

\* C7, amended: get never panics, and is_even and is_odd return a bool exactly
\* when the blocking get returned Ok and panic when it returned an error.
C7_OnlyConvenienceFunctionsPanic ==
    /\ \A c \in Clients : result[c].tag # "Panic"
    /\ \A c \in Clients : Returned(c) => result[c].tag \in OutcomeTags
    /\ conv.pc = "panicked" => Returned("conv") /\ result["conv"].tag \in ErrorTags
    /\ conv.pc \in {"negate", "returned"} =>
           Returned("conv") /\ result["conv"].tag = "Ok"
    /\ conv.pc = "returned" =>
           conv.ret = (IF conv.fn = "is_odd"
                       THEN ~result["conv"].iseven ELSE result["conv"].iseven)

C7_Witness ==
    /\ conv.pc = "panicked" /\ conv.fn = "is_odd"
    /\ result["conv"].tag = "NumberOutOfRange"

\* C8: a call sends exactly one request, to the URL of its subject, and none
\* before it is made or after a failure.
C8_OneRequestPerCall ==
    \A c \in Clients :
        /\ pc[c] \in {"idle", "send"} => sent[c] = <<>>
        /\ pc[c] \in {"json", "done"} => sent[c] = <<API_URL \o Display(number[c])>>

C8_Witness ==
    /\ Returned("async") /\ resp["async"].transport = "connect"
    /\ Len(sent["async"]) = 1
    /\ Returned("blocking") /\ resp["blocking"].status = 500
    /\ ParsesAsNeither(resp["blocking"])
    /\ Len(sent["blocking"]) = 1

\* C9, as claimed: with a 2xx status no call returns an error classified from
\* the body.
C9_No2xxServerError ==
    \A c \in Clients :
        (Returned(c) /\ resp[c].transport = "ok" /\ Is2xx(resp[c].status)) =>
            result[c].tag \notin ServerErrorTags

\* C9, amended: an error is classified from the body exactly when the body
\* parses as the error shape, whatever the status: InvalidNumber only with 400,
\* NumberOutOfRange only with 401, UnknownErrorResponse with every other
\* status, 2xx included, and carrying it.
C9_ServerErrorIffErrorShape ==
    \A c \in Clients :
        Returned(c) =>
            /\ result[c].tag \in ServerErrorTags <=> ParsesAsError(resp[c])
            /\ result[c].tag = "InvalidNumber" => resp[c].status = 400
            /\ result[c].tag = "NumberOutOfRange" => resp[c].status = 401
            /\ result[c].tag = "UnknownErrorResponse" =>
                   resp[c].status \notin {400, 401} /\ result[c].status = resp[c].status
            /\ (ParsesAsError(resp[c]) /\ Is2xx(resp[c].status)) =>
                   result[c].tag = "UnknownErrorResponse"

C9_Witness ==
    \E c \in Clients :
        /\ Returned(c) /\ ParsesAsError(resp[c]) /\ resp[c].status = 200
        /\ result[c].tag = "UnknownErrorResponse" /\ result[c].status = 200

\* Lines printed for the first k numbers, all looked up successfully.
PrintedLines(k) == IF cli.args.json THEN k ELSE 2 * k

\* C10: the program looks its numbers up in order, one request each; it exits
\* with status 1 at the first lookup that returns an error, with the results of
\* the earlier numbers printed and no request made for a later one; it exits
\* with status 0 only when every lookup succeeded.
C10_CliStopsAtFirstError ==
    LET n == Len(cli.args.numbers)
        k == Len(cli.lookups)
    IN  /\ cli.exit \in {-1, 0, 1}
        /\ Len(sent["cli"]) <= n
        /\ k <= Len(sent["cli"]) /\ Len(sent["cli"]) <= k + 1
        /\ \A i \in 1..Len(sent["cli"]) : sent["cli"][i] = API_URL \o cli.args.numbers[i]
        /\ \A i \in 1..k : cli.lookups[i] # "Ok" => i = k /\ cli.exit = 1
        /\ cli.exit = 1 =>
            /\ k >= 1 /\ cli.lookups[k] \in ErrorTags
            /\ cli.idx = k /\ Len(sent["cli"]) = k
            /\ Len(cli.out) = PrintedLines(k - 1)
            /\ Len(cli.err) = 1
        /\ cli.exit = 0 =>
            /\ k = n /\ Len(sent["cli"]) = n
            /\ \A i \in 1..n : cli.lookups[i] = "Ok"
            /\ Len(cli.out) = PrintedLines(n)
            /\ cli.err = <<>>
        /\ ~cli.args.json =>
            \A i \in 1..(Len(cli.out) \div 2) :
                cli.out[2 * i] \in { cli.args.numbers[i] \o " is an " \o p \o " number" :
                                       p \in {"even", "odd"} }

C10_Witness ==
    /\ cli.exit = 1 /\ ~cli.args.json
    /\ Len(cli.args.numbers) = 3 /\ cli.idx = 2
    /\ Len(cli.out) = 2 /\ Len(sent["cli"]) = 2
    /\ cli.lookups = <<"Ok", "NetworkError">>

====
